---------------------------- MODULE Spec2Model ----------------------------
(***************************************************************************)
(* Model of import_journal_to_howwefeel.py: the journal-page markup parser, *)
(* the date resolver, the text normaliser / sentence segmenter, the         *)
(* takeaway extractor, the two-tier mood classifier and the main import     *)
(* loop with its dedup keys and the CSV record store.                       *)
(*                                                                         *)
(* Text is a sequence of one-character strings.  A ';'-joined mood field    *)
(* is a sequence of label tokens separated by the token ";".                *)
(***************************************************************************)
EXTENDS Integers, Sequences, FiniteSets, TLC

VARIABLES
    \* JournalHTMLParser
    in_body, in_page_header, in_title, text_parts, page_header, title, stack,
    open_elems, n_events,
    \* classifier functions applied to drawn inputs
    cls_pc, cls_text, cls_pool, cls_allow_fallback, cls_reply, cls_mood,
    cls_takeaway,
    \* main()
    pc, args, api_key, moods_file, entries, csv_exists, csv_rows, csv_ends_nl,
    existing_moods, mood_pool, existing_keys, new_rows, idx, run, first_outcome

parser_vars == <<in_body, in_page_header, in_title, text_parts, page_header,
                 title, stack, open_elems, n_events>>
cls_vars == <<cls_pc, cls_text, cls_pool, cls_allow_fallback, cls_reply,
              cls_mood, cls_takeaway>>
main_vars == <<pc, args, api_key, moods_file, entries, csv_exists, csv_rows,
               csv_ends_nl, existing_moods, mood_pool, existing_keys, new_rows,
               idx, run, first_outcome>>
vars == <<parser_vars, cls_vars, main_vars>>

(***************************************************************************)
(* Bounds of the model.                                                     *)
(***************************************************************************)
MaxEvents == 5
MaxWords == 3
MaxParts == 3
MaxEntries == 2

(***************************************************************************)
(* Generic helpers.                                                         *)
(***************************************************************************)
Range(s) == {s[i] : i \in 1..Len(s)}

InSeq(x, s) == \E i \in 1..Len(s) : s[i] = x

MinOf(S) == CHOOSE m \in S : \A n \in S : m <= n

Prefix(s, n) == IF Len(s) <= n THEN s ELSE SubSeq(s, 1, n)

\* the sequences of ss one after the other
Concat(ss) ==
    LET F[k \in 0..Len(ss)] == IF k = 0 THEN <<>> ELSE F[k - 1] \o ss[k]
    IN  F[Len(ss)]

SeqsUpTo(S, n) == UNION {[1..k -> S] : k \in 0..n}

\* Op applied to the value of x: x is evaluated once, as an argument of a
\* call or the right-hand side of an assignment is
Bind(x, Op(_)) == CHOOSE y \in {Op(v) : v \in {x}} : TRUE

(***************************************************************************)
(* Characters: str.lower(), str.strip(), and the regex classes \s, \w, \b.  *)
(***************************************************************************)
UpperToLower ==
    ("A" :> "a") @@ ("B" :> "b") @@ ("C" :> "c") @@ ("D" :> "d") @@
    ("E" :> "e") @@ ("F" :> "f") @@ ("G" :> "g") @@ ("H" :> "h") @@
    ("I" :> "i") @@ ("J" :> "j") @@ ("K" :> "k") @@ ("L" :> "l") @@
    ("M" :> "m") @@ ("N" :> "n") @@ ("O" :> "o") @@ ("P" :> "p") @@
    ("Q" :> "q") @@ ("R" :> "r") @@ ("S" :> "s") @@ ("T" :> "t") @@
    ("U" :> "u") @@ ("V" :> "v") @@ ("W" :> "w") @@ ("X" :> "x") @@
    ("Y" :> "y") @@ ("Z" :> "z")

LowerChar(c) == IF c \in DOMAIN UpperToLower THEN UpperToLower[c] ELSE c

lower(s) == [i \in 1..Len(s) |-> LowerChar(s[i])]

SpaceChars == {" ", "\n", "\t", "\r"}

IsSpace(c) == c \in SpaceChars

\* punctuation of the model's alphabet; every other character is a letter,
\* a digit or "_", which is what \w matches
PunctChars == {".", "!", "?", ",", ";", ":", "-", "\"", "'", "(", ")", "&", "*"}

IsWordChar(c) == c \notin SpaceChars /\ c \notin PunctChars

MaxOf(S) == CHOOSE m \in S : \A n \in S : n <= m

StripOf(s, keep) ==
    IF keep = {} THEN <<>> ELSE SubSeq(s, MinOf(keep), MaxOf(keep))

strip(s) ==
    Bind(s, LAMBDA v :
        Bind({i \in 1..Len(v) : ~IsSpace(v[i])}, LAMBDA keep : StripOf(v, keep)))

\* the character before position k of s (k-1) and at k; outside s: no word char
CharAt(s, k) == IF k >= 1 /\ k <= Len(s) THEN s[k] ELSE " "

\* \b between positions k-1 and k
WordBoundary(s, k) == IsWordChar(CharAt(s, k - 1)) # IsWordChar(CharAt(s, k))

MatchAt(s, i, a) ==
    /\ i + Len(a) - 1 <= Len(s)
    /\ \A j \in 1..Len(a) : s[i + j - 1] = a[j]

\* re.search(r"\b(a1|a2|...)\b", s) for literal alternatives
re_search_word(alts, s) ==
    \E i \in 1..Len(s) :
        /\ WordBoundary(s, i)
        /\ \E a \in alts : MatchAt(s, i, a) /\ WordBoundary(s, i + Len(a))

(***************************************************************************)
(* normalize_text, split_sentences, extract_takeaway.                       *)
(***************************************************************************)
\* the elements of a finite set of integers in increasing order
SortedSeq(S) ==
    [k \in 1..Cardinality(S) |->
        CHOOSE x \in S : Cardinality({y \in S : y < x}) = k - 1]

\* re.sub(r"\s+", " ", text).strip(): of every whitespace run only the first
\* character stays, as a space
normalize_text(text) ==
    LET spaced == [i \in 1..Len(text) |->
                      IF ~IsSpace(text[i]) THEN text[i]
                      ELSE IF i > 1 /\ IsSpace(text[i - 1]) THEN "" ELSE " "]
    IN  strip(SelectSeq(spaced, LAMBDA c : c # ""))

SentenceEnd == {".", "!", "?"}

\* position i lies in a match of (?<=[.!?])\s+ : in a whitespace run that
\* directly follows a terminal character
InCut(text, i) ==
    /\ IsSpace(text[i])
    /\ \E j \in 1..(i - 1) :
          /\ text[j] \in SentenceEnd
          /\ \A k \in (j + 1)..i : IsSpace(text[k])

\* re.split(r"(?<=[.!?])\s+", text): the pieces between the cuts (a cut at
\* the very end leaves an empty last piece)
PiecesBetween(text, cut) ==
    LET starts == {i \in 1..Len(text) :
                      i \notin cut /\ (i = 1 \/ (i - 1) \in cut)}
        last(s) == CHOOSE e \in s..Len(text) :
                      /\ \A k \in s..e : k \notin cut
                      /\ (e = Len(text) \/ (e + 1) \in cut)
    IN  Bind(SortedSeq(starts), LAMBDA first :
            [k \in 1..Len(first) |-> SubSeq(text, first[k], last(first[k]))])

re_split_sentences(text) ==
    Bind({i \in 1..Len(text) : InCut(text, i)}, LAMBDA cut :
        IF text = <<>> THEN <<<<>>>>
        ELSE IF Len(text) \in cut THEN Append(PiecesBetween(text, cut), <<>>)
        ELSE PiecesBetween(text, cut))

split_sentences(text) ==
    Bind(re_split_sentences(text), LAMBDA parts :
        SelectSeq([k \in 1..Len(parts) |-> strip(parts[k])],
                  LAMBDA p : p # <<>>))

IntentionWords ==
    {<<"q", "u", "e", "r", "o">>, <<"p", "r", "e", "t", "e", "n", "d", "o">>, <<"v", "o", "u">>, <<"p", "r", "e", "c", "i", "s", "o">>, <<"d", "e", "v", "o">>, <<"d", "e", "c", "i", "d", "i">>,
     <<"p", "l", "a", "n", "e", "j", "o">>}

\* re.search(r"\b(quero|...)\b", s, re.IGNORECASE)
HasIntention(s) == Bind(lower(s), LAMBDA l : re_search_word(IntentionWords, l))

FirstIntention(sentences) ==
    Bind({k \in 1..Len(sentences) : HasIntention(sentences[k])}, LAMBDA hits :
        IF hits = {} THEN <<>> ELSE sentences[MinOf(hits)])

extract_takeaway(text) == Bind(split_sentences(text), FirstIntention)

(***************************************************************************)
(* ';'-joined fields over label tokens.                                     *)
(***************************************************************************)
\* ";".join(parts); the token "" is the empty string
join(parts) ==
    LET tok(k) == IF parts[k] = "" THEN <<>> ELSE <<parts[k]>>
        F[k \in 0..Len(parts)] ==
            IF k = 0 THEN <<>>
            ELSE IF k = 1 THEN tok(1)
            ELSE F[k - 1] \o <<";">> \o tok(k)
    IN  F[Len(parts)]

\* field.split(";"): an empty segment is the token ""
split(field) ==
    LET F[i \in 0..Len(field)] ==
            IF i = 0 THEN <<"">>
            ELSE Bind(F[i - 1], LAMBDA prev :
                    IF field[i] = ";" THEN Append(prev, "")
                    ELSE [prev EXCEPT ![Len(prev)] = field[i]])
    IN  F[Len(field)]

\* str.strip() and str.lower() on the label tokens of the model
strip_token(t) ==
    CASE t = " Calm " -> "Calm"
      [] t = " " -> ""
      [] OTHER -> t

\* str.strip() of a ';'-joined field: outer all-blank tokens fall away
strip_field(field) ==
    LET keep == {i \in 1..Len(field) : strip_token(field[i]) # ""}
    IN  IF keep = {} THEN <<>>
        ELSE SubSeq(field, MinOf(keep), CHOOSE m \in keep : \A n \in keep : n <= m)

lower_token(t) ==
    CASE t = "Anxious" -> "anxious"
      [] t = "ANXIOUS" -> "anxious"
      [] t = "Depressed" -> "depressed"
      [] t = "Grateful" -> "grateful"
      [] t = "Motivated" -> "motivated"
      [] t = "Calm" -> "calm"
      [] t = "Sad" -> "sad"
      [] t = "Happy" -> "happy"
      [] t = "Hopeless" -> "hopeless"
      [] t = "Tired" -> "tired"
      [] t = "Good" -> "good"
      [] t = "Meh" -> "meh"
      [] t = "Concerned" -> "concerned"
      [] t = "Down" -> "down"
      [] t = "Peeved" -> "peeved"
      [] t = "Proud" -> "proud"
      [] t = "Content" -> "content"
      [] t = "Neutral" -> "neutral"
      [] t = "Exhausted" -> "exhausted"
      [] t = "Trapped" -> "trapped"
      [] t = "Frustrated" -> "frustrated"
      [] t = "Inspired" -> "inspired"
      [] OTHER -> t

(***************************************************************************)
(* Mood pool.                                                               *)
(***************************************************************************)
\* the labels of the model in sorted() order (code-point order)
LabelOrder ==
    <<"ANXIOUS", "Anxious", "Calm", "Concerned", "Content", "Depressed",
      "Down", "Exhausted", "Frustrated", "Good", "Grateful", "Happy",
      "Hopeless", "Inspired", "Meh", "Motivated", "Neutral", "Peeved",
      "Proud", "Sad", "Tired", "Trapped">>

\* load_existing_moods; rows are the lines of the file, the header line
\* first; the mood field is the second field of a row
load_existing_moods(exists, rows) ==
    IF ~exists \/ rows = <<>> \/ rows[1] = <<>> THEN {}
    ELSE UNION {
            {strip_token(m) : m \in Range(split(strip_field(rows[r][2])))} \ {""}
            : r \in {k \in 2..Len(rows) : Len(rows[k]) >= 2}}

\* load_moods_file: stripped lines, blank and "#" lines dropped
load_moods_file(lines) ==
    LET stripped == [k \in 1..Len(lines) |-> strip_token(lines[k])]
    IN  SelectSeq(stripped, LAMBDA l : l # "" /\ l # "#comment")

build_mood_pool(existing, extra_moods) == existing \cup Range(extra_moods)

(***************************************************************************)
(* choose_mood: the heuristic tier.                                         *)
(***************************************************************************)
Categories ==
    << [pattern |-> {<<"a", "n", "s", "i", "o", "s">>, <<"a", "n", "s", "i", "e", "d", "a", "d", "e">>, <<"p", "r", "e", "o", "c", "u", "p", "a", "d">>, <<"n", "e", "r", "v", "o", "s">>},
        prefs |-> <<"Anxious", "Concerned", "Uneasy">>],
       [pattern |-> {<<"d", "e", "p", "r", "e", "s", "s">>, <<"m", "o", "r", "r", "e", "r">>, <<"s", "u", "i", "c", "i", "d">>, <<"h", "o", "p", "e", "l", "e", "s", "s">>,
                     <<"s", "e", "m", " ", "r", "a", "z", "a", "o">>, <<"s", "e", "m", " ", "r", "a", "z", "ã", "o">>},
        prefs |-> <<"Depressed", "Hopeless", "Miserable", "Down">>],
       [pattern |-> {<<"c", "a", "n", "s", "a", "d">>, <<"e", "x", "a", "u", "s", "t">>, <<"f", "a", "t", "i", "g">>},
        prefs |-> <<"Exhausted", "Tired", "Fatigued">>],
       [pattern |-> {<<"p", "r", "e", "s", "o">>, <<"p", "r", "i", "s", "a", "o">>, <<"p", "r", "i", "s", "ã", "o">>, <<"t", "r", "a", "n", "c", "a", "d">>},
        prefs |-> <<"Trapped">>],
       [pattern |-> {<<"f", "r", "u", "s", "t", "r">>, <<"r", "a", "i", "v", "a">>, <<"i", "r", "r", "i", "t">>, <<"c", "u", "l", "p", "a">>,
                     <<"v", "e", "r", "g", "o", "n", "h">>},
        prefs |-> <<"Frustrated", "Peeved", "Guilty", "Ashamed">>],
       [pattern |-> {<<"i", "n", "s", "p", "i", "r">>, <<"m", "o", "t", "i", "v", "a", "d">>, <<"o", "r", "g", "u", "l", "h">>, <<"c", "o", "n", "f", "i", "a", "n">>},
        prefs |-> <<"Inspired", "Motivated", "Proud">>],
       [pattern |-> {<<"g", "r", "a", "t">>, <<"f", "e", "l", "i", "z">>, <<"b", "e", "m">>, <<"e", "s", "p", "e", "r", "a", "n">>, <<"o", "t", "i", "m", "i">>},
        prefs |-> <<"Grateful", "Hopeful", "Optimistic", "Good", "Content">>] >>

FallbackMoods == <<"Thoughtful", "Mellow", "Calm", "Neutral", "Meh", "Balanced">>

\* re.search(r"\b(...)\b", text_l) of category c
CategoryMatches(c, text_l) == re_search_word(Categories[c].pattern, text_l)

\* the candidate lists with the ifs in the opposite order
mood_preferences_reversed(text_l) ==
    LET hit == SelectSeq([c \in 1..Len(Categories) |-> Len(Categories) + 1 - c],
                         LAMBDA c : CategoryMatches(c, text_l))
    IN  [k \in 1..Len(hit) |-> Categories[hit[k]].prefs]

\* the candidate lists of the matching categories, in the order of the ifs
mood_preferences(text_l) ==
    LET hit == SelectSeq([c \in 1..Len(Categories) |-> c],
                         LAMBDA c : CategoryMatches(c, text_l))
    IN  [k \in 1..Len(hit) |-> Categories[hit[k]].prefs]

\* inner loop: the first candidate in the pool that is not chosen yet
AppendFirstCandidate(chosen, prefs, pool) ==
    LET ok == {j \in 1..Len(prefs) :
                  prefs[j] \in pool /\ ~InSeq(prefs[j], chosen)}
    IN  IF ok = {} THEN chosen ELSE Append(chosen, prefs[MinOf(ok)])

\* the outer loop without its break
ChosenFromNoBreak(preferences, pool) ==
    LET F[k \in 0..Len(preferences)] ==
            IF k = 0 THEN <<>>
            ELSE Bind(F[k - 1], LAMBDA prev :
                    AppendFirstCandidate(prev, preferences[k], pool))
    IN  F[Len(preferences)]

\* outer loop, left once two moods are chosen
ChosenFrom(preferences, pool) ==
    LET F[k \in 0..Len(preferences)] ==
            IF k = 0 THEN <<>>
            ELSE Bind(F[k - 1], LAMBDA prev :
                    IF Len(prev) >= 2 THEN prev
                    ELSE AppendFirstCandidate(prev, preferences[k], pool))
    IN  F[Len(preferences)]

FallbackChoice(pool) ==
    LET ok == {j \in 1..Len(FallbackMoods) : FallbackMoods[j] \in pool}
    IN  IF ok = {} THEN <<>> ELSE <<FallbackMoods[MinOf(ok)]>>

choose_mood(text, pool, allow_fallback) ==
    Bind(lower(text), LAMBDA text_l :
        Bind(mood_preferences(text_l), LAMBDA preferences :
            Bind(ChosenFrom(preferences, pool), LAMBDA chosen :
                join(IF allow_fallback /\ chosen = <<>>
                     THEN FallbackChoice(pool) ELSE chosen))))

(***************************************************************************)
(* llm_choose_mood: the remote tier.  A response is the outcome of the one  *)
(* network call: an exception of urlopen / read / json.loads, or the        *)
(* decoded JSON value.                                                      *)
(***************************************************************************)
\* except (urllib.error.URLError, urllib.error.HTTPError, json.JSONDecodeError)
CaughtErrors == {"URLError", "HTTPError", "JSONDecodeError"}

\* raised by resp.read() on a timeout while the body is read (TimeoutError),
\* and by data.get on a JSON value that is no object (AttributeError)
ResponseKinds == CaughtErrors \cup {"ReadTimeout", "JSONNotObject", "JSONObject"}

DefaultMaxMoods == 2

\* {m.lower(): m for m in sorted(existing_moods)}: the last label wins
moods_lower_map(pool, key) ==
    LET hits == {i \in 1..Len(LabelOrder) :
                    LabelOrder[i] \in pool /\ lower_token(LabelOrder[i]) = key}
    IN  IF hits = {} THEN ""
        ELSE LabelOrder[CHOOSE m \in hits : \A n \in hits : n <= m]

\* the loop over raw_text.split(";")
LlmStep(prev, part, pool, max_moods) ==
    LET mood == strip_token(part)
        normalized == moods_lower_map(pool, lower_token(mood))
        now == IF normalized # "" /\ ~InSeq(normalized, prev.chosen)
               THEN Append(prev.chosen, normalized)
               ELSE prev.chosen
    IN  IF prev.stop \/ mood = "" THEN prev
        ELSE [chosen |-> now, stop |-> Len(now) >= max_moods]

LlmChosen(parts, pool, max_moods) ==
    LET F[k \in 0..Len(parts)] ==
            IF k = 0 THEN [chosen |-> <<>>, stop |-> FALSE]
            ELSE Bind(F[k - 1], LAMBDA prev :
                    LlmStep(prev, parts[k], pool, max_moods))
    IN  F[Len(parts)].chosen

\* result: [raised |-> TRUE] when an exception leaves the function
llm_choose_mood(pool, key, max_moods, response) ==
    IF ~key THEN [raised |-> FALSE, mood |-> <<>>]
    ELSE IF pool = {} THEN [raised |-> FALSE, mood |-> <<>>]
    ELSE IF response.kind \in CaughtErrors THEN [raised |-> FALSE, mood |-> <<>>]
    ELSE IF response.kind # "JSONObject" THEN [raised |-> TRUE, mood |-> <<>>]
    ELSE LET raw_text == strip_field(response.text)
         IN  IF raw_text = <<>> THEN [raised |-> FALSE, mood |-> <<>>]
             ELSE [raised |-> FALSE,
                   mood |-> Bind(split(raw_text), LAMBDA parts :
                                join(LlmChosen(parts, pool, max_moods)))]

(***************************************************************************)
(* Inputs of the classifier functions.                                      *)
(***************************************************************************)
\* one word per category, an inflected form the stems are meant for, an
\* intention marker and a sentence end
Vocab ==
    <<<<"a", "n", "s", "i", "e", "d", "a", "d", "e">>, <<"a", "n", "s", "i", "o", "s", "o">>, <<"m", "o", "r", "r", "e", "r">>, <<"c", "a", "n", "s", "a", "d">>, <<"p", "r", "e", "s", "o">>,
      <<"r", "a", "i", "v", "a">>, <<"i", "n", "s", "p", "i", "r">>, <<"f", "e", "l", "i", "z", ".">>, <<"Q", "u", "e", "r", "o">>>>

JoinWords(ws) ==
    LET F[k \in 0..Len(ws)] ==
            IF k = 0 THEN <<>>
            ELSE IF k = 1 THEN ws[1]
            ELSE F[k - 1] \o <<" ">> \o ws[k]
    IN  F[Len(ws)]

Reverse(s) == [k \in 1..Len(s) |-> s[Len(s) + 1 - k]]

\* the texts made of at most MaxWords different words of Vocab, in the
\* order of Vocab or in the opposite order
WordChoices ==
    {SortedSeq(W) : W \in {X \in SUBSET (1..Len(Vocab)) : Cardinality(X) <= MaxWords}}

VocabTexts ==
    {JoinWords([k \in 1..Len(c) |-> Vocab[c[k]]]) : c \in WordChoices}
    \cup {JoinWords([k \in 1..Len(c) |-> Vocab[Reverse(c)[k]]]) : c \in WordChoices}

ScenarioBody == <<"E", "s", "t", "o", "u", " ", "m", "u", "i", "t", "o", " ", "a", "n", "s", "i", "o", "s", "o", " ", "h", "o", "j", "e", ".", " ", "Q", "u", "e", "r", "o", " ", "m", "e", "l", "h", "o", "r", "a", "r", " ", "m", "i", "n", "h", "a", " ", "r", "o", "t", "i", "n", "a", ".">>

ScenarioTakeaway == <<"Q", "u", "e", "r", "o", " ", "m", "e", "l", "h", "o", "r", "a", "r", " ", "m", "i", "n", "h", "a", " ", "r", "o", "t", "i", "n", "a", ".">>

Texts == VocabTexts \cup {ScenarioBody}

Pools ==
    { {},
      {"Anxious", "Motivated"},
      {"Depressed", "Grateful"},
      {"Anxious", "Depressed", "Exhausted", "Trapped", "Frustrated",
       "Inspired", "Grateful"},
      {"Hopeless", "Tired", "Good", "Calm"},
      {"Calm", "Meh"},
      {"ANXIOUS", "Anxious", "Sad"},
      {"Concerned", "Down", "Peeved", "Proud", "Content", "Neutral"},
      {"Happy"} }

ReplyParts == {"anxious", "ANXIOUS", " Calm ", "Sad", "Depressed", ""}

Replies == {join(ps) : ps \in SeqsUpTo(ReplyParts, MaxParts)}

Responses ==
    [kind : ResponseKinds \ {"JSONObject"}, text : {<<>>}]
    \cup [kind : {"JSONObject"}, text : Replies]

NoResponse == [kind |-> "none", text |-> <<>>]

(***************************************************************************)
(* The classifier functions applied to drawn inputs.                        *)
(***************************************************************************)
ClsInit ==
    /\ cls_pc = "start"
    /\ cls_pool \in Pools
    /\ cls_allow_fallback \in BOOLEAN
    /\ cls_text = <<>>
    /\ cls_reply = NoResponse
    /\ cls_mood = <<>>
    /\ cls_takeaway = <<>>

ClsIdle ==
    /\ cls_pc = "idle"
    /\ cls_pool = {}
    /\ cls_allow_fallback = FALSE
    /\ cls_text = <<>>
    /\ cls_reply = NoResponse
    /\ cls_mood = <<>>
    /\ cls_takeaway = <<>>

ApplyChooseMood ==
    /\ cls_pc = "start"
    /\ \E t \in Texts :
          /\ cls_text' = t
          /\ cls_mood' = choose_mood(t, cls_pool, cls_allow_fallback)
          /\ cls_takeaway' = extract_takeaway(normalize_text(t))
    /\ cls_pc' = "heuristic"
    /\ UNCHANGED <<cls_pool, cls_allow_fallback, cls_reply>>
    /\ UNCHANGED <<parser_vars, main_vars>>

ApplyLlmChooseMood ==
    /\ cls_pc = "start"
    /\ \E r \in Responses :
          \E res \in {llm_choose_mood(cls_pool, TRUE, DefaultMaxMoods, r)} :
              /\ cls_reply' = r
              /\ cls_mood' = res.mood
              /\ cls_pc' = IF res.raised THEN "raised" ELSE "remote"
    /\ UNCHANGED <<cls_pool, cls_allow_fallback, cls_text, cls_takeaway>>
    /\ UNCHANGED <<parser_vars, main_vars>>

(***************************************************************************)
(* JournalHTMLParser.  A parser state is a record of the object's fields;   *)
(* the handlers are functions from a state and an event to the next state.  *)
(***************************************************************************)
NewParser ==
    [in_body |-> FALSE, in_page_header |-> FALSE, in_title |-> FALSE,
     text_parts |-> <<>>, page_header |-> <<>>, title |-> <<>>,
     stack |-> <<>>]

\* html.unescape on the data of the model: the one entity it holds
unescape(data) == IF data = <<"&", "a", "m", "p", ";">> THEN <<"&">> ELSE data

\* cls is the value of the class attribute, "" when there is none
handle_starttag(p, tag, cls) ==
    LET body == IF tag = "body" THEN [p EXCEPT !.in_body = TRUE] ELSE p
    IN  IF ~body.in_body THEN body
        ELSE [body EXCEPT
                !.in_page_header = (tag = "div" /\ cls = "pageHeader") \/ @,
                !.in_title = (tag = "div" /\ cls = "title") \/ @,
                !.text_parts = IF tag \in {"p", "li", "br"}
                               THEN Append(@, <<"\n">>) ELSE @,
                !.stack = Append(@, tag)]

handle_endtag(p, tag) ==
    [p EXCEPT
        !.in_body = IF tag = "body" THEN FALSE ELSE @,
        !.in_page_header = IF tag = "div" THEN FALSE ELSE @,
        !.in_title = IF tag = "div" THEN FALSE ELSE @,
        !.stack = IF @ # <<>> THEN SubSeq(@, 1, Len(@) - 1) ELSE @]

handle_data(p, data) ==
    IF ~p.in_body THEN p
    ELSE LET text == unescape(data)
         IN  IF p.in_page_header THEN [p EXCEPT !.page_header = @ \o text]
             ELSE IF p.in_title THEN [p EXCEPT !.title = @ \o text]
             ELSE [p EXCEPT !.text_parts = Append(@, text)]

\* an event of the markup: a start tag, an end tag or a run of text
StartEv(tag, cls) == [type |-> "start", tag |-> tag, cls |-> cls, data |-> <<>>]

EndEv(tag) == [type |-> "end", tag |-> tag, cls |-> "", data |-> <<>>]

DataEv(data) == [type |-> "data", tag |-> "", cls |-> "", data |-> data]

handle_event(p, e) ==
    CASE e.type = "start" -> handle_starttag(p, e.tag, e.cls)
      [] e.type = "end" -> handle_endtag(p, e.tag)
      [] OTHER -> handle_data(p, e.data)

\* parser.feed(content): the handlers in the order of the markup
feed(events) ==
    LET F[k \in 0..Len(events)] ==
            IF k = 0 THEN NewParser
            ELSE Bind(F[k - 1], LAMBDA prev : handle_event(prev, events[k]))
    IN  F[Len(events)]

(***************************************************************************)
(* The parser object driven one event at a time.  open_elems is the stack   *)
(* of the elements of the markup that are open, each with whether its start *)
(* tag was seen inside the body: the end tag of the innermost one is its    *)
(* matching end tag.                                                        *)
(***************************************************************************)
ParserTags == {"body", "div", "p"}

ParserClasses == {"", "pageHeader", "title"}

ParserData == {<<"a">>, <<"&", "a", "m", "p", ";">>}

ParserState ==
    [in_body |-> in_body, in_page_header |-> in_page_header,
     in_title |-> in_title, text_parts |-> text_parts,
     page_header |-> page_header, title |-> title, stack |-> stack]

SetParser(p) ==
    /\ in_body' = p.in_body
    /\ in_page_header' = p.in_page_header
    /\ in_title' = p.in_title
    /\ text_parts' = p.text_parts
    /\ page_header' = p.page_header
    /\ title' = p.title
    /\ stack' = p.stack

ParserInit ==
    /\ in_body = FALSE
    /\ in_page_header = FALSE
    /\ in_title = FALSE
    /\ text_parts = <<>>
    /\ page_header = <<>>
    /\ title = <<>>
    /\ stack = <<>>
    /\ open_elems = <<>>
    /\ n_events = 0

ParserIdle == ParserInit

OpenTags == {open_elems[i].tag : i \in 1..Len(open_elems)}

StartTag ==
    /\ n_events < MaxEvents
    /\ \E tag \in ParserTags, cls \in ParserClasses :
          /\ cls # "" => tag = "div"
          /\ tag = "body" => "body" \notin OpenTags
          /\ \E p \in {handle_starttag(ParserState, tag, cls)} :
                /\ SetParser(p)
                /\ open_elems' = Append(open_elems,
                       [tag |-> tag, cls |-> cls, in_body |-> p.in_body])
    /\ n_events' = n_events + 1
    /\ UNCHANGED <<cls_vars, main_vars>>

EndTag ==
    /\ n_events < MaxEvents
    /\ open_elems # <<>>
    /\ SetParser(handle_endtag(ParserState, open_elems[Len(open_elems)].tag))
    /\ open_elems' = SubSeq(open_elems, 1, Len(open_elems) - 1)
    /\ n_events' = n_events + 1
    /\ UNCHANGED <<cls_vars, main_vars>>

Data ==
    /\ n_events < MaxEvents
    /\ \E d \in ParserData : SetParser(handle_data(ParserState, d))
    /\ n_events' = n_events + 1
    /\ UNCHANGED open_elems
    /\ UNCHANGED <<cls_vars, main_vars>>

\* a container of the given class, opened inside the body, is still open
ContainerOpen(cls) ==
    \E i \in 1..Len(open_elems) :
        /\ open_elems[i].tag = "div"
        /\ open_elems[i].cls = cls
        /\ open_elems[i].in_body

(***************************************************************************)
(* parse_date_from_header and format_date_for_csv.                          *)
(***************************************************************************)
Digits == <<"0", "1", "2", "3", "4", "5", "6", "7", "8", "9">>

IsDigit(c) == InSeq(c, Digits)

DigitVal(c) == (CHOOSE i \in 1..Len(Digits) : Digits[i] = c) - 1

\* int() of a run of digits
ParseInt(ds) ==
    LET F[k \in 0..Len(ds)] ==
            IF k = 0 THEN 0
            ELSE F[k - 1] * 10 + DigitVal(ds[k])
    IN  F[Len(ds)]

\* str() of a natural number
ToDigits(n) ==
    LET F[m \in 0..n] ==
            IF m < 10 THEN <<Digits[m + 1]>>
            ELSE Append(F[m \div 10], Digits[(m % 10) + 1])
    IN  F[n]

PORTUGUESE_MONTHS ==
    {<<<<"j", "a", "n", "e", "i", "r", "o">>, 1>>, <<<<"f", "e", "v", "e", "r", "e", "i", "r", "o">>, 2>>, <<<<"m", "a", "r", "ç", "o">>, 3>>,
     <<<<"m", "a", "r", "c", "o">>, 3>>, <<<<"a", "b", "r", "i", "l">>, 4>>, <<<<"m", "a", "i", "o">>, 5>>, <<<<"j", "u", "n", "h", "o">>, 6>>,
     <<<<"j", "u", "l", "h", "o">>, 7>>, <<<<"a", "g", "o", "s", "t", "o">>, 8>>, <<<<"s", "e", "t", "e", "m", "b", "r", "o">>, 9>>,
     <<<<"o", "u", "t", "u", "b", "r", "o">>, 10>>, <<<<"n", "o", "v", "e", "m", "b", "r", "o">>, 11>>, <<<<"d", "e", "z", "e", "m", "b", "r", "o">>, 12>>}

\* the class [a-zçã]
IsMonthLetter(c) ==
    c \in {UpperToLower[u] : u \in DOMAIN UpperToLower} \cup {"ç", "ã"}

AllDigits(s, i, n) ==
    /\ i >= 1
    /\ i + n - 1 <= Len(s)
    /\ \A k \in i..(i + n - 1) : IsDigit(s[k])

\* the length of the longest run of month letters of s that starts at i
LetterRun(s, i) ==
    LET ends == {e \in (i - 1)..Len(s) : \A k \in i..e : IsMonthLetter(s[k])}
    IN  (CHOOSE e \in ends : \A f \in ends : f <= e) - i + 1

\* (\d{1,2}) de ([a-zçã]+) de (\d{4}) matches at i with a day of n digits
DatePatternAt(s, i, n) ==
    /\ AllDigits(s, i, n)
    /\ MatchAt(s, i + n, <<" ", "d", "e", " ">>)
    /\ LET letters == LetterRun(s, i + n + 4)
       IN  /\ letters >= 1
           /\ MatchAt(s, i + n + 4 + letters, <<" ", "d", "e", " ">>)
           /\ AllDigits(s, i + n + 4 + letters + 4, 4)

IsLeap(year) == (year % 4 = 0) /\ ((year % 100 # 0) \/ (year % 400 = 0))

DaysInMonth(year, month) ==
    IF month = 2 THEN (IF IsLeap(year) THEN 29 ELSE 28)
    ELSE IF month \in {4, 6, 9, 11} THEN 30 ELSE 31

\* dt.date(year, month, day) raises ValueError outside these ranges
ValidDate(year, month, day) ==
    /\ year >= 1 /\ year <= 9999
    /\ month >= 1 /\ month <= 12
    /\ day >= 1 /\ day <= DaysInMonth(year, month)

NoDate == [kind |-> "None", year |-> 0, month |-> 0, day |-> 0]

\* lines 105-111 for the match at i with a day of n digits and a month name
\* of the given length.  kind "None": the function returns None;
\* "ValueError": dt.date raises
DateOfMatch(h, i, n, letters) ==
    LET day == ParseInt(SubSeq(h, i, i + n - 1))
        name == SubSeq(h, i + n + 4, i + n + 3 + letters)
        month_name == [k \in 1..letters |->
                          IF name[k] = "ç" THEN "c" ELSE name[k]]
        found == {m \in PORTUGUESE_MONTHS : m[1] = month_name}
        year == ParseInt(SubSeq(h, i + n + 8 + letters, i + n + 11 + letters))
    IN  IF found = {} THEN NoDate
        ELSE LET month == (CHOOSE m \in found : TRUE)[2]
             IN  IF ValidDate(year, month, day)
                 THEN [kind |-> "date", year |-> year, month |-> month,
                       day |-> day]
                 ELSE [NoDate EXCEPT !.kind = "ValueError"]

\* re.search: the leftmost match, the day as long as it can be
SearchDate(h) ==
    Bind({i \in 1..Len(h) : DatePatternAt(h, i, 2) \/ DatePatternAt(h, i, 1)},
         LAMBDA at :
            IF at = {} THEN NoDate
            ELSE Bind(MinOf(at), LAMBDA i :
                    Bind(IF DatePatternAt(h, i, 2) THEN 2 ELSE 1, LAMBDA n :
                        Bind(LetterRun(h, i + n + 4), LAMBDA letters :
                            DateOfMatch(h, i, n, letters)))))

parse_date_from_header(header_text) ==
    Bind(lower(strip(header_text)), SearchDate)

WEEKDAYS_EN == <<<<"M", "o", "n">>, <<"T", "u", "e">>, <<"W", "e", "d">>, <<"T", "h", "u">>, <<"F", "r", "i">>, <<"S", "a", "t">>, <<"S", "u", "n">>>>

MonthAbbr ==
    <<<<"J", "a", "n">>, <<"F", "e", "b">>, <<"M", "a", "r">>, <<"A", "p", "r">>, <<"M", "a", "y">>, <<"J", "u", "n">>, <<"J", "u", "l">>, <<"A", "u", "g">>,
      <<"S", "e", "p">>, <<"O", "c", "t">>, <<"N", "o", "v">>, <<"D", "e", "c">>>>

\* date.toordinal(): 1 is Monday, January 1 of year 1
ToOrdinal(year, month, day) ==
    LET y == year - 1
        before_month[m \in 1..12] ==
            IF m = 1 THEN 0
            ELSE before_month[m - 1] + DaysInMonth(year, m - 1)
    IN  y * 365 + (y \div 4) - (y \div 100) + (y \div 400)
        + before_month[month] + day

\* date.weekday(): Monday is 0
weekday(d) == (ToOrdinal(d.year, d.month, d.day) + 6) % 7

\* --time, "%I:%M %p" as strftime prints it back
DefaultTime == <<"1", "2", ":", "0", "0", " ", "P", "M">>

\* strftime("%Y {weekday} %b %-d %I:%M %p")
format_date_for_csv(d, time_str) ==
    ToDigits(d.year) \o <<" ">> \o WEEKDAYS_EN[weekday(d) + 1] \o <<" ">>
    \o MonthAbbr[d.month] \o <<" ">> \o ToDigits(d.day) \o <<" ">>
    \o strip(time_str)

(***************************************************************************)
(* process_html_file.                                                       *)
(***************************************************************************)
\* " ".join(parser.text_parts)
JoinParts(parts) ==
    LET F[k \in 0..Len(parts)] ==
            IF k = 0 THEN <<>>
            ELSE IF k = 1 THEN parts[1]
            ELSE F[k - 1] \o <<" ">> \o parts[k]
    IN  F[Len(parts)]

\* the bullet glyph U+2022, written "*" in the texts of the model
Bullet == "*"

\* re.sub(r"\s*<bullet>\s*", " - ", text): every bullet becomes " - " and
\* takes the whitespace runs around it
replace_bullets(text) ==
    LET NearBullet(i) ==
            /\ IsSpace(text[i])
            /\ \/ \E j \in (i + 1)..Len(text) :
                     text[j] = Bullet /\ \A k \in i..(j - 1) : IsSpace(text[k])
               \/ \E j \in 1..(i - 1) :
                     text[j] = Bullet /\ \A k \in (j + 1)..i : IsSpace(text[k])
        piece(i) ==
            IF text[i] = Bullet THEN <<" ", "-", " ">>
            ELSE IF NearBullet(i) THEN <<>> ELSE <<text[i]>>
    IN  Bind([i \in 1..Len(text) |-> piece(i)], Concat)

\* the triple (date_obj, title, body_text)
process_html_file(events) ==
    Bind(feed(events), LAMBDA parser :
        [date_obj |-> parse_date_from_header(parser.page_header),
         title |-> normalize_text(parser.title),
         body |-> Bind(JoinParts(parser.text_parts), LAMBDA body_text :
                      Bind(replace_bullets(body_text), normalize_text))])

(***************************************************************************)
(* Records and dedup keys.                                                  *)
(***************************************************************************)
DateKeyLen == 10

TextKeyLen == 40

\* a row with twelve blank fields
build_row_12_blanks(date_str, mood, notes, reflections, takeaways) ==
    <<date_str, mood, <<>>, <<>>, <<>>, <<>>, <<>>, <<>>, <<>>, <<>>, <<>>,
      <<>>, <<>>, <<>>, notes, reflections, takeaways>>

build_row(date_str, mood, notes, reflections, takeaways) ==
    <<date_str, mood, <<>>, <<>>, <<>>, <<>>, <<>>, <<>>, <<>>, <<>>, <<>>,
      <<>>, <<>>, <<>>, <<>>, notes, reflections, takeaways>>

DedupKey(date_str, notes, reflections) ==
    <<Prefix(date_str, DateKeyLen), Prefix(notes, TextKeyLen),
      Prefix(reflections, TextKeyLen)>>

\* the key of one data row as parse_existing_keys reads it (row[15], row[16]
\* are the 16th and 17th fields)
RowKey(row) ==
    DedupKey(strip(row[1]),
             IF Len(row) > 15 THEN strip(row[16]) ELSE <<>>,
             IF Len(row) > 16 THEN strip(row[17]) ELSE <<>>)

\* rows: the lines of the file, the header line first
parse_existing_keys(exists, rows) ==
    IF ~exists \/ rows = <<>> \/ rows[1] = <<>> THEN {}
    ELSE {RowKey(rows[r]) : r \in {k \in 2..Len(rows) : Len(rows[k]) >= 1}}

(***************************************************************************)
(* Inputs of main(): the pages of the entries directory, the record store,  *)
(* the moods file and the command line.                                     *)
(***************************************************************************)
HeaderDiv(text) ==
    <<StartEv("div", "pageHeader"), DataEv(text), EndEv("div")>>

TitleDiv(text) == <<StartEv("div", "title"), DataEv(text), EndEv("div")>>

Para(text) == <<StartEv("p", ""), DataEv(text), EndEv("p")>>

Page(inner) ==
    <<StartEv("html", ""), StartEv("head", ""), DataEv(<<"J", "o", "u", "r", "n", "a", "l">>),
      EndEv("head"), StartEv("body", "")>>
    \o inner \o <<EndEv("body"), EndEv("html")>>

\* the scenario page: no title, an inflected anxiety word, an intention
PageScenario ==
    Page(HeaderDiv(<<"q", "u", "i", "n", "t", "a", "-", "f", "e", "i", "r", "a", ",", " ", "3", " ", "d", "e", " ", "m", "a", "r", "ç", "o", " ", "d", "e", " ", "2", "0", "2", "4">>) \o Para(ScenarioBody))

\* crisis and gratitude in one text, a title, a bullet and a line break
PageCrisis ==
    Page(HeaderDiv(<<"D", "o", "m", "i", "n", "g", "o", ",", " ", "5", " ", "d", "e", " ", "m", "a", "i", "o", " ", "d", "e", " ", "2", "0", "2", "4">>)
         \o TitleDiv(<<"D", "i", "a", " ", " ", "r", "u", "i", "m">>)
         \o Para(<<"H", "o", "j", "e", " ", "p", "e", "n", "s", "e", "i", " ", "e", "m", " ", "m", "o", "r", "r", "e", "r", ".">>)
         \o <<StartEv("br", "")>>
         \o Para(<<"*", " ", "M", "a", "s", " ", "e", "s", "t", "o", "u", " ", "f", "e", "l", "i", "z", " ", "c", "o", "m", " ", "a", " ", "f", "a", "m", "i", "l", "i", "a", " ", "e", " ", "v", "o", "u", " ", "d", "e", "s", "c", "a", "n", "s", "a", "r", ".">>))

\* a known month with a day the month does not have
PageInvalidDate ==
    Page(HeaderDiv(<<"3", "1", " ", "d", "e", " ", "f", "e", "v", "e", "r", "e", "i", "r", "o", " ", "d", "e", " ", "2", "0", "2", "4">>) \o Para(<<"N", "a", "d", "a", " ", "a", " ", "d", "i", "z", "e", "r", ".">>))

\* a container inside the page header
PageNestedHeader ==
    Page(<<StartEv("div", "pageHeader"), StartEv("div", ""), DataEv(<<"7", " ", "d", "e">>),
           EndEv("div"), DataEv(<<" ", "j", "u", "n", "h", "o", " ", "d", "e", " ", "2", "0", "2", "4">>), EndEv("div")>>
         \o Para(<<"E", "s", "t", "o", "u", " ", "b", "e", "m", ".">>))

Files ==
    { [html |-> TRUE, events |-> PageScenario],
      [html |-> TRUE, events |-> PageCrisis],
      [html |-> TRUE, events |-> PageInvalidDate],
      [html |-> TRUE, events |-> PageNestedHeader],
      [html |-> FALSE, events |-> <<>>] }

\* process_html_file of every file of the model
Processed == [f \in Files |-> process_html_file(f.events)]

HeaderRow == <<<<"D", "a", "t", "e">>, <<"M", "o", "o", "d">>>>

OldRow(mood) ==
    build_row(<<"2", "0", "2", "3", " ", "S", "u", "n", " ", "J", "a", "n", " ", "1", " ", "1", "2", ":", "0", "0", " ", "P", "M">>, mood, <<"A", "n", "o", " ", "n", "o", "v", "o">>,
              <<"C", "o", "m", "e", "c", "e", "i", " ", "o", " ", "a", "n", "o", ".">>, <<>>)

\* [rows, ends_nl]: the lines of the store and whether the last one is ended
Stores ==
    { [exists |-> FALSE, rows |-> <<>>, ends_nl |-> TRUE],
      [exists |-> TRUE, rows |-> <<HeaderRow>>, ends_nl |-> TRUE],
      [exists |-> TRUE, rows |-> <<HeaderRow, OldRow(<<>>)>>, ends_nl |-> TRUE],
      [exists |-> TRUE,
       rows |-> <<HeaderRow, OldRow(<<"Anxious", ";", " Calm ">>),
                  OldRow(<<"Depressed", ";", "Grateful">>)>>,
       ends_nl |-> TRUE],
      [exists |-> TRUE,
       rows |-> <<HeaderRow, OldRow(<<"Anxious", ";", "Motivated">>)>>,
       ends_nl |-> FALSE] }

MoodsFiles == {<<>>, <<"#comment", " Calm ", "", "Happy">>}

\* force, llm_off, dry_run and whether OPENAI_API_KEY is set
Configs ==
    { [force |-> FALSE, llm_off |-> FALSE, dry_run |-> FALSE, key |-> TRUE],
      [force |-> FALSE, llm_off |-> FALSE, dry_run |-> FALSE, key |-> FALSE],
      [force |-> FALSE, llm_off |-> TRUE, dry_run |-> FALSE, key |-> FALSE],
      [force |-> TRUE, llm_off |-> TRUE, dry_run |-> FALSE, key |-> FALSE],
      [force |-> FALSE, llm_off |-> TRUE, dry_run |-> TRUE, key |-> FALSE] }

\* the outcomes of the network call in main()
MainResponses ==
    { [kind |-> "URLError", text |-> <<>>],
      [kind |-> "ReadTimeout", text |-> <<>>],
      [kind |-> "JSONNotObject", text |-> <<>>],
      [kind |-> "JSONObject", text |-> <<"anxious", ";", " Calm ", ";", "Sad">>] }

(***************************************************************************)
(* main().                                                                  *)
(***************************************************************************)
MainInit ==
    /\ pc = "init"
    /\ \E c \in Configs :
          /\ args = [force |-> c.force, llm_off |-> c.llm_off,
                     dry_run |-> c.dry_run]
          /\ api_key = c.key
    /\ moods_file \in MoodsFiles
    /\ entries \in SeqsUpTo(Files, MaxEntries)
    /\ \E s \in Stores :
          /\ csv_exists = s.exists
          /\ csv_rows = s.rows
          /\ csv_ends_nl = s.ends_nl
    /\ existing_moods = {}
    /\ mood_pool = {}
    /\ existing_keys = {}
    /\ new_rows = <<>>
    /\ idx = 0
    /\ run = "first"
    /\ first_outcome = "none"

MainIdle ==
    /\ pc = "idle"
    /\ args = [force |-> FALSE, llm_off |-> FALSE, dry_run |-> FALSE]
    /\ api_key = FALSE
    /\ moods_file = <<>>
    /\ entries = <<>>
    /\ csv_exists = FALSE
    /\ csv_rows = <<>>
    /\ csv_ends_nl = TRUE
    /\ existing_moods = {}
    /\ mood_pool = {}
    /\ existing_keys = {}
    /\ new_rows = <<>>
    /\ idx = 0
    /\ run = "first"
    /\ first_outcome = "none"

\* lines 383-400: the moods of the store, the pool, the keys of the store
Start ==
    /\ pc = "init"
    /\ existing_moods' = load_existing_moods(csv_exists, csv_rows)
    /\ IF existing_moods' = {}
       THEN /\ pc' = "no_moods"
            /\ UNCHANGED <<mood_pool, existing_keys, idx>>
       ELSE /\ mood_pool' = build_mood_pool(existing_moods',
                                            load_moods_file(moods_file))
            /\ existing_keys' = parse_existing_keys(csv_exists, csv_rows)
            /\ idx' = 1
            /\ pc' = "loop"
    /\ new_rows' = <<>>
    /\ UNCHANGED <<args, api_key, moods_file, entries, csv_exists, csv_rows,
                   csv_ends_nl, run, first_outcome>>
    /\ UNCHANGED <<parser_vars, cls_vars>>

\* notes = title if title else (split_sentences(body)[0] if ... else body)
NotesOf(page_title, body) ==
    IF page_title # <<>> THEN page_title
    ELSE Bind(split_sentences(body), LAMBDA sentences :
            IF sentences # <<>> THEN sentences[1] ELSE body)

\* lines 409-412 and the text handed to the classifiers, for a page with a
\* date and a body
EntryFields(page) ==
    [date_str |-> format_date_for_csv(page.date_obj, DefaultTime),
     notes |-> NotesOf(page.title, page.body),
     reflections |-> page.body,
     takeaways |-> extract_takeaway(page.body),
     text |-> page.title \o <<" ">> \o page.body]

NoFields ==
    [date_str |-> <<>>, notes |-> <<>>, reflections |-> <<>>,
     takeaways |-> <<>>, text |-> <<>>]

\* EntryFields of every file of the model that gets that far
Fields ==
    [f \in Files |->
        IF Processed[f].date_obj.kind = "date" /\ Processed[f].body # <<>>
        THEN EntryFields(Processed[f]) ELSE NoFields]

\* lines 415-423: the remote tier when the heuristic tier found nothing and
\* --llm-off is not given
MoodOf(heuristic, response) ==
    IF heuristic = <<>> /\ ~args.llm_off
    THEN llm_choose_mood(mood_pool, api_key, DefaultMaxMoods, response)
    ELSE [raised |-> FALSE, mood |-> heuristic]

\* lines 425-429
Accept(row) ==
    IF ~args.force /\ DedupKey(row[1], row[16], row[17]) \in existing_keys
    THEN new_rows
    ELSE Append(new_rows, row)

\* lines 415-429 given the result of the heuristic tier and the outcome of
\* the network call: the exception leaves main(), the entry is skipped as a
\* duplicate, or its row is appended to new_rows
EntryResult(e, heuristic, response) ==
    Bind(MoodOf(heuristic, response), LAMBDA remote :
        IF remote.raised THEN [raised |-> TRUE, rows |-> new_rows]
        ELSE [raised |-> FALSE,
              rows |-> Bind(build_row(e.date_str, remote.mood, e.notes,
                                      e.reflections, e.takeaways),
                            Accept)])

\* the outcomes of the network call that can follow the heuristic tier's
\* result: llm_choose_mood is called, and gets as far as the call, only
\* when that result is empty, --llm-off is not given, the key is set and the
\* pool is not empty
ResponsesAfter(heuristic) ==
    IF heuristic = <<>> /\ ~args.llm_off /\ api_key /\ mood_pool # {}
    THEN MainResponses ELSE {NoResponse}

\* one iteration of the loop over sorted(os.listdir(entries_dir))
ProcessEntry ==
    /\ pc = "loop"
    /\ idx <= Len(entries)
    /\ \E file \in {entries[idx]} :
          IF ~file.html
          THEN pc' = "loop" /\ new_rows' = new_rows
          ELSE \E page \in {Processed[file]} :
                  IF page.date_obj.kind = "ValueError"
                  THEN pc' = "raised" /\ new_rows' = new_rows
                  ELSE IF page.date_obj.kind = "None" \/ page.body = <<>>
                  THEN pc' = "loop" /\ new_rows' = new_rows
                  ELSE \E heuristic \in {choose_mood(Fields[file].text,
                                                     mood_pool, args.llm_off)} :
                          \E response \in ResponsesAfter(heuristic) :
                             \E res \in {EntryResult(Fields[file], heuristic,
                                                     response)} :
                                /\ pc' = IF res.raised THEN "raised" ELSE "loop"
                                /\ new_rows' = res.rows
    /\ idx' = idx + 1
    /\ UNCHANGED <<args, api_key, moods_file, entries, csv_exists, csv_rows,
                   csv_ends_nl, existing_moods, mood_pool, existing_keys, run,
                   first_outcome>>
    /\ UNCHANGED <<parser_vars, cls_vars>>

\* open(csv_path, "a") and writer.writerow per row: the text of the rows
\* goes after the last character of the file, so a last line that is not
\* ended continues with the first row written
AppendRows(rows, ends_nl, added) ==
    IF added = <<>> \/ rows = <<>> \/ ends_nl THEN rows \o added
    ELSE LET last == rows[Len(rows)]
             first == added[1]
             merged == IF last = <<>> THEN first
                       ELSE SubSeq(last, 1, Len(last) - 1)
                            \o <<last[Len(last)] \o first[1]>>
                            \o Tail(first)
         IN  SubSeq(rows, 1, Len(rows) - 1) \o <<merged>> \o Tail(added)

\* lines 431-444
Finish ==
    /\ pc = "loop"
    /\ idx > Len(entries)
    /\ IF args.dry_run \/ ~csv_exists
       THEN UNCHANGED <<csv_rows, csv_ends_nl>>
       ELSE /\ csv_rows' = AppendRows(csv_rows, csv_ends_nl, new_rows)
            /\ csv_ends_nl' = (csv_ends_nl \/ new_rows # <<>>)
    /\ pc' = "done"
    /\ UNCHANGED <<args, api_key, moods_file, entries, csv_exists,
                   existing_moods, mood_pool, existing_keys, new_rows, idx,
                   run, first_outcome>>
    /\ UNCHANGED <<parser_vars, cls_vars>>

\* the program is started again on the same inputs and the store as it is
Rerun ==
    /\ pc \in {"done", "raised", "no_moods"}
    /\ run = "first"
    /\ run' = "second"
    /\ first_outcome' = pc
    /\ pc' = "init"
    /\ existing_moods' = {}
    /\ mood_pool' = {}
    /\ existing_keys' = {}
    /\ new_rows' = <<>>
    /\ idx' = 0
    /\ UNCHANGED <<args, api_key, moods_file, entries, csv_exists, csv_rows,
                   csv_ends_nl>>
    /\ UNCHANGED <<parser_vars, cls_vars>>

(***************************************************************************)
(* Specifications.                                                          *)
(***************************************************************************)
Init == MainInit /\ ParserIdle /\ ClsIdle

Next == Start \/ ProcessEntry \/ Finish \/ Rerun

\* main() on drawn inputs, run twice
Spec == Init /\ [][Next]_vars

ClassifyInit == ClsInit /\ ParserIdle /\ MainIdle

ClassifyNext == ApplyChooseMood \/ ApplyLlmChooseMood

\* choose_mood, extract_takeaway and llm_choose_mood on drawn inputs
SpecClassify == ClassifyInit /\ [][ClassifyNext]_vars

ParserSpecInit == ParserInit /\ ClsIdle /\ MainIdle

ParserSpecNext == StartTag \/ EndTag \/ Data

\* the parser fed with the events of a well-nested markup
SpecParser == ParserSpecInit /\ [][ParserSpecNext]_vars

(***************************************************************************)
(* Properties.                                                              *)
(***************************************************************************)
\* the labels of a ';'-joined mood field
LabelsOf(mood) == IF mood = <<>> THEN <<>> ELSE split(mood)

\* the key main() computes for a row it built
KeyOfRow(row) == DedupKey(row[1], row[16], row[17])

\* C1: with --force off, no two rows accepted into new_rows in one run have
\* the same dedup key (date_str[:10], notes[:40], reflections[:40]).
C1_NoTwoAcceptedWithEqualKey ==
    ~args.force =>
        \A i, j \in 1..Len(new_rows) :
            i # j => KeyOfRow(new_rows[i]) # KeyOfRow(new_rows[j])

\* C2: when the first run of main() ended normally (no dry run, --force off),
\* the second run on the same pages against the store the first run left
\* accepts no row.
C2_SecondRunAcceptsNothing ==
    (run = "second" /\ first_outcome = "done" /\ ~args.force /\ ~args.dry_run)
        => new_rows = <<>>

\* C3: llm_choose_mood never raises: whatever the network call does other
\* than deliver a JSON object, the function returns the empty string.
C3_RemoteTierNeverRaises ==
    cls_reply.kind \in (ResponseKinds \ {"JSONObject"})
        => (cls_pc = "remote" /\ cls_mood = <<>>)

\* C4: main() stops before the loop exactly when the mood pool, the moods of
\* the store together with the labels of the moods file, is empty.
C4_StopsIffPoolEmpty ==
    pc \notin {"init", "idle"} =>
        ((pc = "no_moods") <=>
            (build_mood_pool(load_existing_moods(csv_exists, csv_rows),
                             load_moods_file(moods_file)) = {}))

LabelCategories(label) ==
    {c \in 1..Len(Categories) : InSeq(label, Categories[c].prefs)}

\* the categories that match the text and have a candidate in the pool
Claimants(text_l, pool) ==
    {c \in 1..Len(Categories) :
        /\ CategoryMatches(c, text_l)
        /\ \E j \in 1..Len(Categories[c].prefs) : Categories[c].prefs[j] \in pool}

\* C6: the labels of choose_mood's result are in category-priority order; a
\* matching category with a candidate in the pool is left out only when two
\* categories of higher priority hold both slots; and with the crisis and
\* the gratitude pattern matching and "Depressed" and "Grateful" in the pool,
\* "Depressed" is in the result, before "Grateful" when that is there too.
C6_PriorityOrder ==
    cls_pc = "heuristic" =>
        LET labels == LabelsOf(cls_mood)
            text_l == lower(cls_text)
            claimants == Claimants(text_l, cls_pool)
            at(label) == CHOOSE k \in 1..Len(labels) : labels[k] = label
        IN  /\ \A i, j \in 1..Len(labels) :
                  i < j => \A ci \in LabelCategories(labels[i]),
                              cj \in LabelCategories(labels[j]) : ci < cj
            /\ \A c \in claimants :
                  \/ \E k \in 1..Len(labels) : c \in LabelCategories(labels[k])
                  \/ /\ Len(labels) = 2
                     /\ \A k \in 1..2 :
                           \E d \in claimants :
                               d < c /\ d \in LabelCategories(labels[k])
            /\ (/\ CategoryMatches(2, text_l) /\ CategoryMatches(7, text_l)
                /\ "Depressed" \in cls_pool /\ "Grateful" \in cls_pool)
               => /\ InSeq("Depressed", labels)
                  /\ InSeq("Grateful", labels)
                        => at("Depressed") < at("Grateful")

\* a text that matches the crisis and the gratitude pattern, both top
\* candidates in the pool, both chosen
C6_Witness ==
    /\ cls_pc = "heuristic"
    /\ CategoryMatches(2, lower(cls_text))
    /\ CategoryMatches(7, lower(cls_text))
    /\ {"Depressed", "Grateful"} \subseteq cls_pool
    /\ cls_mood = <<"Depressed", ";", "Grateful">>

\* C7: for the scenario page and the pool {"Anxious", "Motivated"} the
\* heuristic tier yields the mood "Anxious" and the takeaway is the second
\* sentence.
C7_ScenarioYieldsAnxious ==
    \A i \in 1..Len(new_rows) :
        (/\ new_rows[i][17] = ScenarioBody
         /\ mood_pool = {"Anxious", "Motivated"}
         /\ args.llm_off)
        => (new_rows[i][2] = <<"Anxious">> /\ new_rows[i][18] = ScenarioTakeaway)

\* C8 as the spec words it: every row of new_rows has exactly 17 fields.
C8_RowHasSeventeenFields ==
    \A i \in 1..Len(new_rows) : Len(new_rows[i]) = 17

\* C8: every row build_row made for new_rows has exactly 18 fields: the date
\* string, the mood, 13 blank fields, then notes, reflections and takeaway.
C8_RowHasEighteenFields ==
    \A i \in 1..Len(new_rows) :
        LET row == new_rows[i]
        IN  /\ Len(row) = 18
            /\ Len(row[1]) > DateKeyLen
            /\ Len(LabelsOf(row[2])) <= DefaultMaxMoods
            /\ \A k \in 3..15 : row[k] = <<>>
            /\ row[16] # <<>>
            /\ row[17] # <<>>
            /\ row[18] = extract_takeaway(row[17])

\* a row with a mood of two labels and a takeaway was accepted
C8_Witness ==
    \E i \in 1..Len(new_rows) :
        /\ Len(LabelsOf(new_rows[i][2])) = 2
        /\ new_rows[i][Len(new_rows[i])] # <<>>

\* C9: a page whose header holds a known month and a day the calendar does
\* not have is skipped and the run goes on: main() is never left by an
\* exception at such a page.
C9_InvalidDateIsSkipped ==
    (pc = "raised" /\ idx >= 2)
        => Processed[entries[idx - 1]].date_obj.kind # "ValueError"

\* C10: inside the body, in_page_header is on exactly while a pageHeader
\* container is open, that is until its matching end tag, and in_title
\* likewise for the title container.
C10_FlagOnUntilMatchingEnd ==
    in_body =>
        /\ in_page_header <=> ContainerOpen("pageHeader")
        /\ in_title <=> ContainerOpen("title")

=============================================================================
